---- MODULE Spec2Model ----
(***************************************************************************)
(* A model of rbtools' Bazaar and Mercurial clients                        *)
(* (rbtools/clients/bazaar.py, rbtools/clients/mercurial.py).              *)
(*                                                                         *)
(* Text is modelled as a Word: a sequence of chunks (strings).  The        *)
(* revision tokens a user types are Words over single-character chunks,    *)
(* so that the range separators are found by scanning characters as the    *)
(* regular expressions do; the literal words of a command ("hg", "-r",     *)
(* "--hidden") and the labels of the tools' output are one chunk each.     *)
(* No token of the modelled alphabet equals a literal chunk.               *)
(*                                                                         *)
(* The external tool is installed and starts; a command that the code runs *)
(* without ignore_errors exits with status 0.                              *)
(***************************************************************************)
EXTENDS Integers, Sequences, FiniteSets, TLC

VARIABLES client, env, opts, hg, probes, last, given

vars == <<client, env, opts, hg, probes, last, given>>

-----------------------------------------------------------------------------
(* Bounds of the model                                                     *)

\* Longest revision token, in characters, of the token-splitting runs.
MaxTokLen == 4

\* Largest revision number of an outgoing changeset.
MaxRev == 2

-----------------------------------------------------------------------------
(* Text helpers: Python's str methods on Words                             *)

None == <<"<None>">>

EmptyDict == [k \in {} |-> None]

IsSpace(ch) == ch \in {" ", "\n", "\t"}

RECURSIVE LStrip(_)
LStrip(w) == IF w # <<>> /\ IsSpace(Head(w)) THEN LStrip(Tail(w)) ELSE w

RECURSIVE RStrip(_)
RStrip(w) ==
    IF w # <<>> /\ IsSpace(w[Len(w)]) THEN RStrip(SubSeq(w, 1, Len(w) - 1)) ELSE w

\* str.strip()
Strip(w) == RStrip(LStrip(w))

\* str.startswith(prefix), the prefix being one chunk
StartsWith(w, prefix) == w # <<>> /\ Head(w) = prefix

\* str.lower(), on the one capitalised label the tools print
LowerChunk(ch) == IF ch = "Not a child of" THEN "not a child of" ELSE ch

Lower(w) == [i \in 1..Len(w) |-> LowerChunk(w[i])]

\* str.split(sep), sep being one chunk
RECURSIVE SplitFrom(_, _, _, _)
SplitFrom(w, sep, i, cur) ==
    IF i > Len(w) THEN <<cur>>
    ELSE IF w[i] = sep THEN <<cur>> \o SplitFrom(w, sep, i + 1, <<>>)
    ELSE SplitFrom(w, sep, i + 1, Append(cur, w[i]))

SplitOn(w, sep) == SplitFrom(w, sep, 1, <<>>)

\* str.split(sep, 1): at the first separator only
SplitOnce(w, sep) ==
    IF \E i \in 1..Len(w) : w[i] = sep
    THEN LET i == CHOOSE j \in 1..Len(w) :
                      w[j] = sep /\ \A k \in 1..(j - 1) : w[k] # sep
         IN <<SubSeq(w, 1, i - 1), SubSeq(w, i + 1, Len(w))>>
    ELSE <<w>>

\* str.split(): the whitespace-separated fields, none of them empty
RECURSIVE FieldsFrom(_, _, _)
FieldsFrom(w, i, cur) ==
    IF i > Len(w) THEN (IF cur = <<>> THEN <<>> ELSE <<cur>>)
    ELSE IF IsSpace(w[i])
         THEN (IF cur = <<>> THEN <<>> ELSE <<cur>>) \o FieldsFrom(w, i + 1, <<>>)
         ELSE FieldsFrom(w, i + 1, Append(cur, w[i]))

Fields(w) == FieldsFrom(w, 1, <<>>)

\* [x for x in s if keep(x)] for "x != drop"
RECURSIVE Without(_, _)
Without(s, drop) ==
    IF s = <<>> THEN <<>>
    ELSE IF Head(s) = drop THEN Without(Tail(s), drop)
    ELSE <<Head(s)>> \o Without(Tail(s), drop)

InSeq(x, s) == \E i \in 1..Len(s) : s[i] = x

\* str(n) for a revision number
IntWord(n) == <<ToString(n)>>

-----------------------------------------------------------------------------
(* re.split on the adapters' range separators                              *)

\* mercurial.py: r'\.\.|::' matches at character i
HgSeparatorAt(w, i) ==
    /\ i + 1 <= Len(w)
    /\ \/ w[i] = "." /\ w[i + 1] = "."
       \/ w[i] = ":" /\ w[i + 1] = ":"

\* bazaar.py: REVISION_SEPARATOR_REGEX r'\.\.(?![\\/])' matches at character i
BzrSeparatorAt(w, i) ==
    /\ i + 1 <= Len(w)
    /\ w[i] = "." /\ w[i + 1] = "."
    /\ ~(i + 2 <= Len(w) /\ w[i + 2] \in {"\\", "/"})

SeparatorAt(kind, w, i) ==
    IF kind = "hg" THEN HgSeparatorAt(w, i) ELSE BzrSeparatorAt(w, i)

\* re.split: cut at the leftmost matches, left to right, without overlap
RECURSIVE ReSplitFrom(_, _, _, _)
ReSplitFrom(kind, w, i, cur) ==
    IF i > Len(w) THEN <<cur>>
    ELSE IF SeparatorAt(kind, w, i)
         THEN <<cur>> \o ReSplitFrom(kind, w, i + 2, <<>>)
         ELSE ReSplitFrom(kind, w, i + 1, Append(cur, w[i]))

ReSplit(kind, w) == ReSplitFrom(kind, w, 1, <<>>)

-----------------------------------------------------------------------------
(* The environment: what the installed tool and the working copy answer to *)
(* the queries whose answers the Mercurial client caches                   *)

\* MercurialClient._remote_path_candidates, in priority order
RemotePathCandidates == <<"reviewboard", "origin", "parent", "default">>

CandidateNames == {RemotePathCandidates[i] : i \in 1..Len(RemotePathCandidates)}

\* The order in which `hg showconfig` prints the paths (not the priority order)
ShowConfigOrder == <<"default", "parent", "origin", "reviewboard">>

\* 'paths.%s' % candidate
RcKey(candidate) == <<"paths.", candidate>>

\* One line of `hg showconfig`: key=value, the value padded with blanks
ConfigLine(name) == <<"paths.", name, "=", " ", "http://", name, " ">>

RECURSIVE PathLines(_, _)
PathLines(paths, i) ==
    IF i > Len(ShowConfigOrder) THEN <<>>
    ELSE (IF ShowConfigOrder[i] \in paths
          THEN <<ConfigLine(ShowConfigOrder[i])>> ELSE <<>>)
         \o PathLines(paths, i + 1)

\* execute(['hg', 'showconfig'], split_lines=True)
ShowConfigLines(e) == <<<<"ui.username", "=", "u">>>> \o PathLines(e.paths, 1)

\* Outputs of `hg root`
RootAbort == <<"abort:", " no repository found">>
RootFound == <<"/work/repo", "\n">>

\* Outputs of `hg svn info`
SvnAbort == <<"abort:", " repository is not svn">>
SvnUnknown == <<"hg: unknown command", " 'svn'">>
SvnNotChild == <<"Not a child of", " svn://host/repo">>
SvnBridged ==
    <<"URL: ", "svn://", "user@", "host", "/repo", "/trunk", "\n",
      "Repository Root: ", "svn://", "user@", "host", "/repo", "\n">>
SvnNoRoot == <<"URL: ", "svn://", "user@", "host", "/repo", "/trunk", "\n">>

SvnBridgedOutputs == {SvnBridged, SvnNoRoot}
SvnPlainOutputs == {SvnAbort, SvnUnknown, SvnNotChild}

\* The working copy is bridged to Subversion: `hg svn info` answers
IsBridged(e) == e.installed /\ e.root = RootFound /\ e.svn_info \in SvnBridgedOutputs

\* The environments of the model.  What a probe that is never run would
\* answer is fixed, so that no two environments differ only there.
Environments ==
    LET E(i, r, s, h, p) ==
            [installed |-> i, root |-> r, svn_info |-> s, hidden |-> h, paths |-> p]
    IN  {E(FALSE, RootAbort, SvnAbort, FALSE, {})}
        \cup {E(TRUE, RootAbort, SvnAbort, TRUE, {})}
        \cup {E(TRUE, RootFound, SvnBridged, h, {"default"}) : h \in BOOLEAN}
        \cup {E(TRUE, RootFound, SvnNoRoot, TRUE, {"default"})}
        \cup {E(TRUE, RootFound, s, TRUE, {"default"}) : s \in {SvnUnknown, SvnNotChild}}
        \cup {E(TRUE, RootFound, SvnAbort, TRUE, p) :
                  p \in {{}, {"default"}, {"origin", "default"}}}
        \cup {E(TRUE, RootFound, SvnAbort, FALSE, {"default"})}

\* Every configuration of the remote paths, in a plain working copy
ConfigEnvironments ==
    {[installed |-> TRUE, root |-> RootFound, svn_info |-> s, hidden |-> TRUE,
      paths |-> p] : s \in SvnPlainOutputs, p \in SUBSET CandidateNames}

-----------------------------------------------------------------------------
(* The client's state and the context an operation threads through its     *)
(* calls: the instance fields, the options, the commands handed to the     *)
(* process utility, the exception raised so far, the value the last call   *)
(* returned (v), the locals kept across calls (loc) and the result (res)   *)

\* MercurialClient.__init__
HgNew ==
    [hgrc |-> EmptyDict, type |-> "hg", remote_path |-> <<>>, initted |-> FALSE,
     has_hg_root |-> FALSE, hg_root |-> None,
     has_hidden |-> FALSE, hidden |-> FALSE,
     svn_info |-> None]

NoProbes == [root |-> 0, showconfig |-> 0, svn_info |-> 0, hidden |-> 0]

\* A probe counter stops at 2: "more than once"
Bump(n) == IF n < 2 THEN n + 1 ELSE n

Ctx(h, o, p) ==
    [hg |-> h, opts |-> o, probes |-> p, cmds |-> <<>>, hidden_aware |-> <<>>,
     err |-> "none", v |-> None, loc |-> EmptyDict, res |-> EmptyDict]

\* A command line: each literal argument is a Word of one chunk
Lit(args) == [i \in 1..Len(args) |-> <<args[i]>>]

\* execute(cmd, ...): the command is handed to the process utility
Run(c, cmd) == [c EXCEPT !.cmds = Append(@, cmd)]

Raise(c, error) == [c EXCEPT !.err = error, !.res = EmptyDict]

Failed(c) == c.err # "none"

DictSet(d, key, val) ==
    [k \in DOMAIN d \cup {key} |-> IF k = key THEN val ELSE d[k]]

\* return val
Ret(c, val) == IF Failed(c) THEN c ELSE [c EXCEPT !.v = val]

\* name = <the call that made c>
Store(c, name) == IF Failed(c) THEN c ELSE [c EXCEPT !.loc = DictSet(@, name, c.v)]

\* result[key] = <the call that made c>
SetResult(c, key) == IF Failed(c) THEN c ELSE [c EXCEPT !.res = DictSet(@, key, c.v)]

\* return {...}
WithResult(c, r) == IF Failed(c) THEN c ELSE [c EXCEPT !.res = r]

\* result = {}
NoResult(c) == [c EXCEPT !.res = EmptyDict]

\* Python truth of a string or None
Falsy(w) == w = None \/ w = <<>>

HiddenProbeCmd == Lit(<<"hg", "parents", "--hidden", "-r", "0">>)

\* MercurialClient.hidden_changesets_supported
HiddenChangesetsSupported(c) ==
    IF Failed(c) THEN c
    ELSE IF c.hg.has_hidden THEN [c EXCEPT !.v = c.hg.hidden]
    ELSE [Run(c, HiddenProbeCmd) EXCEPT !.hg.has_hidden = TRUE,
                                        !.hg.hidden = env.hidden,
                                        !.probes.hidden = Bump(@),
                                        !.v = env.hidden]

\* The value hg_root caches: the stripped output, None after an abort
RootValue(root) == IF ~StartsWith(root, "abort:") THEN Strip(root) ELSE None

\* MercurialClient.hg_root
HgRoot(c) ==
    IF Failed(c) THEN c
    ELSE IF c.hg.has_hg_root THEN [c EXCEPT !.v = c.hg.hg_root]
    ELSE [Run(c, Lit(<<"hg", "root">>)) EXCEPT !.hg.has_hg_root = TRUE,
                                               !.hg.hg_root = RootValue(env.root),
                                               !.probes.root = Bump(@),
                                               !.v = RootValue(env.root)]

RECURSIVE LoadLines(_, _)
LoadLines(lines, hgrc) ==
    IF lines = <<>> THEN hgrc
    ELSE LET kv == SplitOnce(Head(lines), "=")
         IN  LoadLines(Tail(lines), DictSet(hgrc, kv[1], Strip(kv[2])))

\* MercurialClient._load_hgrc
LoadHgrc(c) ==
    IF Failed(c) THEN c
    ELSE [Run(c, Lit(<<"hg", "showconfig">>))
             EXCEPT !.hg.hgrc = LoadLines(ShowConfigLines(env), @),
                    !.probes.showconfig = Bump(@)]

\* A loop that lets the last defined candidate win
SelectLastRemotePath(hgrc, old) ==
    LET hits == {i \in 1..Len(RemotePathCandidates) :
                     RcKey(RemotePathCandidates[i]) \in DOMAIN hgrc}
    IN  IF hits = {} THEN old
        ELSE LET i == CHOOSE j \in hits : \A k \in hits : j >= k
             IN  <<<<RemotePathCandidates[i]>>, hgrc[RcKey(RemotePathCandidates[i])]>>

\* The for loop of _init: the first candidate whose key the hgrc defines
SelectRemotePath(hgrc, old) ==
    LET hits == {i \in 1..Len(RemotePathCandidates) :
                     RcKey(RemotePathCandidates[i]) \in DOMAIN hgrc}
    IN  IF hits = {} THEN old
        ELSE LET i == CHOOSE j \in hits : \A k \in hits : j <= k
             IN  <<<<RemotePathCandidates[i]>>, hgrc[RcKey(RemotePathCandidates[i])]>>

\* The test of _init on the output of `hg svn info`
AnswersSvnInfo(svn_info) ==
    /\ ~StartsWith(svn_info, "abort:")
    /\ ~StartsWith(svn_info, "hg: unknown command")
    /\ ~StartsWith(Lower(svn_info), "not a child of")

\* _init from its `hg svn info` on
InitMode(c) ==
    IF AnswersSvnInfo(env.svn_info)
    THEN [Run(c, Lit(<<"hg", "svn", "info">>))
             EXCEPT !.probes.svn_info = Bump(@),
                    !.hg.type = "svn",
                    !.hg.svn_info = env.svn_info,
                    !.hg.initted = TRUE]
    ELSE [Run(c, Lit(<<"hg", "svn", "info">>))
             EXCEPT !.probes.svn_info = Bump(@),
                    !.hg.type = "hg",
                    !.hg.remote_path = SelectRemotePath(c.hg.hgrc, @),
                    !.hg.initted = TRUE]

\* _init after it read hg_root
InitInRoot(c) == IF Falsy(c.v) THEN c ELSE InitMode(LoadHgrc(c))

\* An _init that does not look at _initted
InitAlways(c) == IF Failed(c) THEN c ELSE InitInRoot(HgRoot(c))

\* MercurialClient._init
InitClient(c) ==
    IF Failed(c) \/ c.hg.initted THEN c ELSE InitInRoot(HgRoot(c))

\* The normalising extension every _execute appends
ExtConfig == Lit(<<"--config", "extensions.rbtoolsnormalize=hgext.py">>)

\* An _execute that forgets the compatibility shim
KeepHidden(supported, cmd) == cmd

\* cmd = [p for p in cmd if p != '--hidden'], when the flag is not supported
StripHidden(supported, cmd) ==
    IF ~supported /\ InSeq(<<"--hidden">>, cmd)
    THEN Without(cmd, <<"--hidden">>) ELSE cmd

\* _execute once it knows whether hidden changesets are supported (c.v);
\* hidden_aware records the command as the caller built it
ExecuteChecked(c, cmd) ==
    [Run(c, StripHidden(c.v, cmd) \o ExtConfig)
        EXCEPT !.hidden_aware = Append(@, [asked |-> cmd, at |-> Len(c.cmds) + 1])]

\* MercurialClient._execute
Execute(c, cmd) ==
    IF Failed(c) THEN c ELSE ExecuteChecked(HiddenChangesetsSupported(c), cmd)

-----------------------------------------------------------------------------
(* What the tool answers to the queries of one operation (not cached)      *)

\* `hg identify -i -r REV`: the node of REV, then its tags
IdentifyOutput(rev) == <<"@">> \o rev \o <<" ", "tip", "\n">>

\* `hg parents -r REV --template {node|short}`: the first parent's node
ParentNodeOutput(rev, ans) == IF ans.noparent THEN <<>> ELSE <<"^">> \o rev

\* `hg parents -r REV --template {rev}\n`
ParentRevOutput(rev, ans) == IF ans.noparent THEN <<>> ELSE <<"^">> \o rev \o <<"\n">>

\* One changeset of `hg -q outgoing --template 'b:{branches}\nr:{rev}\n\n'`,
\* after the warnings the transport printed
ChangesetBlock(cs) ==
    (IF cs.warn THEN <<"warning: ", "certificate not verified", "\n">> ELSE <<>>)
    \o (IF cs.rev = <<>> THEN <<"\n\n">>
        ELSE <<"b:">> \o cs.branch \o <<"\n", "r:">> \o cs.rev \o <<"\n\n">>)

RECURSIVE OutgoingOutput(_)
OutgoingOutput(changesets) ==
    IF changesets = <<>> THEN <<>>
    ELSE ChangesetBlock(Head(changesets)) \o OutgoingOutput(Tail(changesets))

\* `hg log -r REV --template {parents}`: "rev:node " per parent
RECURSIVE ParentsOutput(_)
ParentsOutput(ps) ==
    IF ps = <<>> THEN <<>>
    ELSE <<ToString(Head(ps)), ":node", " ">> \o ParentsOutput(Tail(ps))

ParentsOf(ans, rev) ==
    IF rev \in DOMAIN ans.parents THEN ans.parents[rev] ELSE <<>>

RevNumbers == (-1)..(MaxRev + 1)

\* str.isdigit()
IsDigit(w) == w # <<>> /\ \A i \in 1..Len(w) : \E n \in 0..(MaxRev + 1) : w[i] = ToString(n)

\* int(s)
ParseInt(w) == CHOOSE n \in RevNumbers : IntWord(n) = w

-----------------------------------------------------------------------------
(* Mercurial: revision identities and outgoing changesets                  *)

\* _identify_revision after its command ran
Identified(c, revision, ans) ==
    IF Failed(c) THEN c
    ELSE IF revision \in ans.bad THEN Raise(c, "InvalidRevisionSpecError")
    ELSE Ret(c, Fields(IdentifyOutput(revision))[1])

\* MercurialClient._identify_revision
IdentifyRevision(c, revision, ans) ==
    Identified(Execute(c, Lit(<<"hg", "identify", "-i", "--hidden", "-r">>)
                          \o <<revision>>),
               revision, ans)

\* MercurialClient._get_remote_branch
GetRemoteBranch(c) ==
    IF Failed(c) THEN c
    ELSE IF c.hg.remote_path = <<>> THEN Raise(c, "IndexError")
    ELSE IF Falsy(c.hg.remote_path[1]) /\ ~Falsy(c.opts.parent_branch)
    THEN Ret(c, c.opts.parent_branch)
    ELSE Ret(c, c.hg.remote_path[1])

\* MercurialClient._get_current_branch
GetCurrentBranch(c, ans) ==
    IF Failed(c) THEN c
    ELSE Ret(Run(c, Lit(<<"hg", "branch">>)), Strip(ans.branch))

\* The lines of one block that are not warnings
BlockParts(pair) ==
    SelectSeq(SplitOn(Strip(pair), "\n"), LAMBDA l : ~StartsWith(l, "warning: "))

\* The blocks the loop of _get_outgoing_changesets does not skip
UsefulBlocks(raw) ==
    SelectSeq(SplitOn(raw, "\n\n"),
              LAMBDA pair : Strip(pair) # <<>> /\ BlockParts(pair) # <<>>)

\* A filter that keeps the changesets of every branch
RECURSIVE FilterAnyBranch(_, _)
FilterAnyBranch(blocks, current_branch) ==
    IF blocks = <<>> THEN <<>>
    ELSE (IF IsDigit(Tail(BlockParts(Head(blocks))[2]))
          THEN <<ParseInt(Tail(BlockParts(Head(blocks))[2]))>> ELSE <<>>)
         \o FilterAnyBranch(Tail(blocks), current_branch)

\* The body of the loop of _get_outgoing_changesets
RECURSIVE FilterBlocks(_, _)
FilterBlocks(blocks, current_branch) ==
    IF blocks = <<>> THEN <<>>
    ELSE LET parts == BlockParts(Head(blocks))
             stripped == Strip(Tail(parts[1]))
             branch_name == IF stripped = <<>> THEN <<"default">> ELSE stripped
             revno == Tail(parts[2])
         IN  (IF branch_name = current_branch /\ IsDigit(revno)
              THEN <<ParseInt(revno)>> ELSE <<>>)
             \o FilterBlocks(Tail(blocks), current_branch)

\* The loop of _get_outgoing_changesets over the blocks of the output
OutgoingOf(c, blocks, current_branch) ==
    IF Failed(c) THEN c
    ELSE IF \E i \in 1..Len(blocks) : Len(BlockParts(blocks[i])) # 2
    THEN Raise(c, "ValueError")
    ELSE Ret(c, FilterBlocks(blocks, current_branch))

\* execute(..., extra_ignore_errors=codes): the process utility fails on an
\* exit status that is neither 0 nor one of the tolerated codes
Tolerated(c, exit, extra_ignore_errors) ==
    IF exit = 0 \/ exit \in extra_ignore_errors THEN c ELSE Raise(c, "ExecuteFailed")

\* MercurialClient._get_outgoing_changesets
GetOutgoingChangesets(c, current_branch, remote, ans) ==
    IF Failed(c) THEN c
    ELSE OutgoingOf(Tolerated(Run(c, Lit(<<"hg", "-q", "outgoing", "--template",
                                           "b:{branches}\\nr:{rev}\\n\\n">>)
                                     \o <<remote>>),
                              ans.exit, {1}),
                    UsefulBlocks(OutgoingOutput(ans.changesets)), current_branch)

SeqMax(s) == CHOOSE x \in {s[i] : i \in 1..Len(s)} : \A j \in 1..Len(s) : s[j] <= x

SeqMin(s) == CHOOSE x \in {s[i] : i \in 1..Len(s)} : \A j \in 1..Len(s) : x <= s[j]

Max(a, b) == IF a >= b THEN a ELSE b

\* re.split(':[^\s]+\s*', parents), then int(p) of the pieces that are not ''
ParseParents(raw) ==
    LET pieces == SplitOn(raw, ":node")
        kept == SelectSeq([i \in 1..Len(pieces) |-> LStrip(pieces[i])],
                          LAMBDA p : p # <<>>)
    IN  [i \in 1..Len(kept) |-> ParseInt(kept[i])]

\* The parents of rev that are not outgoing themselves
ExternalParents(outgoing_changesets, rev, ans) ==
    SelectSeq(ParseParents(ParentsOutput(ParentsOf(ans, rev))),
              LAMBDA q : ~InSeq(q, outgoing_changesets))

LogParentsCmd(rev) ==
    Lit(<<"hg", "log", "-r">>) \o <<IntWord(rev)>> \o Lit(<<"--template", "{parents}">>)

\* The for loop of _get_top_and_bottom_outgoing_revs, from index i down
RECURSIVE ScanForBottom(_, _, _, _, _)
ScanForBottom(c, outgoing_changesets, i, bottom_rev, ans) ==
    IF i = 0 THEN Ret(c, bottom_rev)
    ELSE IF Len(ExternalParents(outgoing_changesets, outgoing_changesets[i], ans)) > 0
    THEN Ret(Run(c, LogParentsCmd(outgoing_changesets[i])),
             ExternalParents(outgoing_changesets, outgoing_changesets[i], ans)[1])
    ELSE ScanForBottom(Run(c, LogParentsCmd(outgoing_changesets[i])),
                       outgoing_changesets, i - 1, outgoing_changesets[i] - 1, ans)

\* A return of the ends that forgets the clamp
TopAndBottomUnclamped(c, outgoing_changesets) ==
    Ret(c, [none |-> FALSE, top |-> SeqMax(outgoing_changesets), bottom |-> c.v])

\* bottom_rev = max(0, bottom_rev); return top_rev, bottom_rev
TopAndBottom(c, outgoing_changesets) ==
    Ret(c, [none |-> FALSE, top |-> SeqMax(outgoing_changesets),
            bottom |-> Max(0, c.v)])

\* MercurialClient._get_top_and_bottom_outgoing_revs
GetTopAndBottomOutgoingRevs(c, outgoing_changesets, ans) ==
    IF Failed(c) THEN c
    ELSE TopAndBottom(ScanForBottom(c, outgoing_changesets, Len(outgoing_changesets),
                                    SeqMin(outgoing_changesets), ans),
                      outgoing_changesets)

\* _get_bottom_and_top_outgoing_revs_for_remote: the outgoing changesets of
\* the branch and remote it stored
OutgoingForRemote(c, ans) ==
    IF Failed(c) THEN c
    ELSE GetOutgoingChangesets(c, c.loc.current_branch, c.loc.remote, ans)

\* _get_bottom_and_top_outgoing_revs_for_remote: the ends of the outgoing
\* changesets, (None, None) when there are none
OutgoingEnds(c, ans) ==
    IF Failed(c) THEN c
    ELSE IF c.v # <<>> THEN GetTopAndBottomOutgoingRevs(c, c.v, ans)
    ELSE Ret(c, [none |-> TRUE, top |-> 0, bottom |-> 0])

\* MercurialClient._get_bottom_and_top_outgoing_revs_for_remote
GetBottomAndTopOutgoingRevsForRemote(c, ans) ==
    OutgoingEnds(
        OutgoingForRemote(
            Store(GetCurrentBranch(Store(GetRemoteBranch(c), "remote"), ans),
                  "current_branch"),
            ans),
        ans)

\* parse_revision_spec without revisions, once it has the outgoing ends
OutgoingSpec(c, ans) ==
    IF Failed(c) THEN c
    ELSE IF c.v.none THEN Raise(c, "InvalidRevisionSpecError")
    ELSE SetResult(
             IdentifyRevision(
                 SetResult(IdentifyRevision(c, IntWord(c.v.bottom), ans), "base"),
                 IntWord(c.v.top), ans),
             "tip")

\* output.split()[0]
FirstField(c, output) ==
    IF Failed(c) THEN c
    ELSE IF Fields(output) = <<>> THEN Raise(c, "IndexError")
    ELSE Ret(c, Fields(output)[1])

\* parse_revision_spec with one revision: the parent of the tip is the base
ParentOfTip(c, ans) ==
    IF Failed(c) THEN c
    ELSE SetResult(
             FirstField(Execute(c, Lit(<<"hg", "parents", "--hidden", "-r">>)
                                   \o <<c.res.tip>>
                                   \o Lit(<<"--template", "{node|short}">>)),
                        ParentNodeOutput(c.res.tip, ans)),
             "base")

\* The branches of parse_revision_spec on the number of revisions
ParseRevisions(c, revisions, ans) ==
    IF Failed(c) THEN c
    ELSE IF Len(revisions) = 0
    THEN OutgoingSpec(GetBottomAndTopOutgoingRevsForRemote(c, ans), ans)
    ELSE IF Len(revisions) = 1
    THEN ParentOfTip(SetResult(IdentifyRevision(c, revisions[1], ans), "tip"), ans)
    ELSE IF Len(revisions) = 2
    THEN SetResult(
             IdentifyRevision(SetResult(IdentifyRevision(c, revisions[1], ans), "base"),
                              revisions[2], ans),
             "tip")
    ELSE Raise(c, "TooManyRevisionsError")

\* The check that ends parse_revision_spec
CheckedSpec(c) ==
    IF Failed(c) THEN c
    ELSE IF "base" \in DOMAIN c.res /\ "tip" \in DOMAIN c.res THEN c
    ELSE Raise(c, "InvalidRevisionSpecError")

\* A parse that never splits a single revision
NoSplit(revisions) == revisions

\* re.split(r'\.\.|::', revisions[0]) of a single revision
HgSplitRevisions(revisions) ==
    IF Len(revisions) = 1 THEN ReSplit("hg", revisions[1]) ELSE revisions

\* MercurialClient.parse_revision_spec
HgParseRevisionSpec(c, revisions, ans) ==
    IF Failed(c) THEN c
    ELSE CheckedSpec(ParseRevisions(NoResult(InitClient(c)),
                                    HgSplitRevisions(revisions), ans))

-----------------------------------------------------------------------------
(* Mercurial: summary, description and diffs                               *)

\* `hg log -r REV --template {desc|firstline}`
SummaryOutput == <<"Fix the bug", "\n">>

\* `hg log -rB:A --follow --template {rev}\n`: two revisions
LogRevsOutput == <<"3", "\n", "2", "\n">>

\* `hg log -rB:A --follow --template {desc}\n\n --limit N`
DescriptionOutput == <<"Fix the bug", "\n", "\n">>

\* `hg parent --svn --template {node}\n`
SvnParentOutput == <<"svnparent", "\n">>

\* str.replace('\n', ' ')
ReplaceNewlines(w) == [i \in 1..Len(w) |-> IF w[i] = "\n" THEN " " ELSE w[i]]

\* '%s' % rev for a revision number, None included
RevWord(none, n) == IF none THEN <<"None">> ELSE IntWord(n)

\* r1, r2 = <the call that made c>, r2
PairWith(c, r2) == IF Failed(c) THEN c ELSE Ret(c, <<c.v, r2>>)

\* <the call that made c>[1]
Second(c) == IF Failed(c) THEN c ELSE Ret(c, c.v[2])

\* The (bottom, top) pair as the two revisions of a log command
EndsWords(c) ==
    IF Failed(c) THEN c
    ELSE Ret(c, <<RevWord(c.v.none, c.v.bottom), RevWord(c.v.none, c.v.top)>>)

\* MercurialClient._extract_revisions; v = <<r1, r2>>
ExtractRevisions(c, revision_range, ans) ==
    IF Failed(c) THEN c
    ELSE IF InSeq(":", revision_range)
    THEN (IF Len(SplitOn(revision_range, ":")) # 2 THEN Raise(c, "ValueError")
          ELSE Ret(c, SplitOn(revision_range, ":")))
    ELSE PairWith(
             FirstField(Execute(c, Lit(<<"hg", "parents", "--hidden", "-r">>)
                                   \o <<revision_range>>
                                   \o Lit(<<"--template", "{rev}\\n">>)),
                        ParentRevOutput(revision_range, ans)),
             revision_range)

\* extract_summary: the revision whose first line is the summary
SummaryRevision(c, revision_range, ans) ==
    IF ~Falsy(revision_range) THEN Second(ExtractRevisions(c, revision_range, ans))
    ELSE IF c.hg.type = "svn" THEN Ret(c, <<".">>)
    ELSE Second(EndsWords(GetBottomAndTopOutgoingRevsForRemote(c, ans)))

\* extract_summary: the log command on the revision c.v
LogFirstLine(c) ==
    IF Failed(c) THEN c
    ELSE Ret(Execute(c, Lit(<<"hg", "log", "--hidden">>)
                        \o <<<<"-r">> \o c.v>>
                        \o Lit(<<"--template", "{desc|firstline}">>)),
             ReplaceNewlines(SummaryOutput))

\* MercurialClient.extract_summary
HgExtractSummary(c, revision_range, ans) ==
    IF Failed(c) THEN c ELSE LogFirstLine(SummaryRevision(c, revision_range, ans))

\* MercurialClient._get_parent_for_hgsubversion
GetParentForHgsubversion(c) ==
    IF Failed(c) THEN c
    ELSE IF ~Falsy(c.opts.parent_branch) THEN Ret(c, c.opts.parent_branch)
    ELSE Ret(Run(c, Lit(<<"hg", "parent", "--svn", "--template", "{node}\\n">>)),
             Strip(SvnParentOutput))

\* extract_description: rev1 and rev2
DescriptionRevisions(c, revision_range, ans) ==
    IF ~Falsy(revision_range) THEN ExtractRevisions(c, revision_range, ans)
    ELSE IF c.hg.type = "svn" THEN PairWith(GetParentForHgsubversion(c), <<".">>)
    ELSE EndsWords(GetBottomAndTopOutgoingRevsForRemote(c, ans))

\* '-r%s:%s' % (rev2, rev1)
LogRange(pair) == <<<<"-r">> \o pair[2] \o <<":">> \o pair[1]>>

\* extract_description: the two log commands on the revisions c.v
LogDescriptions(c) ==
    IF Failed(c) THEN c
    ELSE Ret(Execute(
                 Execute(c, Lit(<<"hg", "log", "--hidden">>) \o LogRange(c.v)
                            \o Lit(<<"--follow", "--template", "{rev}\\n">>)),
                 Lit(<<"hg", "log", "--hidden">>) \o LogRange(c.v)
                 \o Lit(<<"--follow", "--template", "{desc}\\n\\n", "--limit">>)
                 \o <<IntWord(Len(SplitOn(Strip(LogRevsOutput), "\n")) - 1)>>),
             Strip(DescriptionOutput))

\* MercurialClient.extract_description
HgExtractDescription(c, revision_range, ans) ==
    IF Failed(c) THEN c
    ELSE LogDescriptions(DescriptionRevisions(c, revision_range, ans))

\* self.options.summary = <the call that made c>
AsSummary(c) == IF Failed(c) THEN c ELSE [c EXCEPT !.opts.summary = c.v]

\* self.options.description = <the call that made c>
AsDescription(c) == IF Failed(c) THEN c ELSE [c EXCEPT !.opts.description = c.v]

\* MercurialClient._set_summary
HgSetSummary(c, revision_range, ans) ==
    IF Failed(c) THEN c
    ELSE IF c.opts.guess_summary /\ Falsy(c.opts.summary)
    THEN AsSummary(HgExtractSummary(c, revision_range, ans))
    ELSE c

\* MercurialClient._set_description
HgSetDescription(c, revision_range, ans) ==
    IF Failed(c) THEN c
    ELSE IF c.opts.guess_description /\ Falsy(c.opts.description)
    THEN AsDescription(HgExtractDescription(c, revision_range, ans))
    ELSE c

\* _get_hgsubversion_diff from its parent (c.v) on
SvnDiff(c, files, ans) ==
    IF Failed(c) THEN c
    ELSE WithResult(
             Execute(c, Lit(<<"hg", "diff", "--hidden", "--svn">>)
                        \o <<IF Len(files) = 1
                             THEN <<"-r">> \o c.v \o <<":">> \o files[1]
                             ELSE <<".">>>>),
             [diff |-> ans.diff])

\* MercurialClient._get_hgsubversion_diff
GetHgsubversionDiff(c, files, ans) ==
    SvnDiff(GetParentForHgsubversion(
                HgSetDescription(HgSetSummary(c, None, ans), None, ans)),
            files, ans)

\* A _diff that never makes the parent diff
HgSkipParentDiff(c, revisions, files) == c

\* _diff: the parent diff command, when the revisions have a parent_base
HgParentDiff(c, revisions, files) ==
    IF Failed(c) \/ "parent_base" \notin DOMAIN revisions THEN c
    ELSE Execute(c, Lit(<<"hg", "diff", "--hidden">>) \o files
                    \o <<<<"-r">>, revisions.parent_base, <<"-r">>, revisions.base>>)

\* MercurialClient._diff
HgDiffRevisions(c, revisions, files, ans) ==
    IF Failed(c) THEN c
    ELSE IF c.hg.type # "hg" THEN Raise(c, "NotImplementedError")
    ELSE WithResult(
             HgParentDiff(
                 Execute(c, Lit(<<"hg", "diff", "--hidden">>) \o files
                            \o <<<<"-r">>, revisions.base, <<"-r">>, revisions.tip>>),
                 revisions, files),
             [diff |-> ans.diff,
              parent_diff |-> IF "parent_base" \in DOMAIN revisions
                              THEN ans.parent_diff ELSE None,
              base_commit_id |-> IF "parent_base" \in DOMAIN revisions
                                 THEN revisions.parent_base ELSE revisions.base])

\* return self._diff(revisions, files) on the revisions just parsed
DiffParsed(c, files, ans) ==
    IF Failed(c) THEN c ELSE HgDiffRevisions(c, c.res, files, ans)

\* MercurialClient._get_outgoing_diff
GetOutgoingDiff(c, files, ans) ==
    DiffParsed(
        HgParseRevisionSpec(
            HgSetDescription(HgSetSummary(InitClient(c), None, ans), None, ans),
            <<>>, ans),
        files, ans)

\* MercurialClient.diff
HgDiff(c, files, ans) ==
    IF c.hg.type = "svn" THEN GetHgsubversionDiff(c, files, ans)
    ELSE GetOutgoingDiff(c, files, ans)

\* MercurialClient.diff_between_revisions
HgDiffBetweenRevisions(c, revision_range, args, ans) ==
    DiffParsed(
        HgParseRevisionSpec(
            HgSetDescription(HgSetSummary(c, revision_range, ans), revision_range, ans),
            <<revision_range>>, ans),
        <<>>, ans)

\* urlunparse of the root without its credentials: netloc.split("@")[-1]
DropCredentials(w) == SelectSeq(w, LAMBDA ch : ch # "user@")

\* _info(r) of _calculate_hgsubversion_repository_info: the text after the
\* label, to the end of its line; None when no line has the label
SvnField(svn_info, label) ==
    LET lines == SplitOn(svn_info, "\n")
        hits == {i \in 1..Len(lines) : StartsWith(lines[i], label)}
    IN  IF hits = {} THEN None
        ELSE Tail(lines[CHOOSE i \in hits : \A j \in hits : i <= j])

\* RepositoryInfo(path, base_path, supports_parent_diffs=True)
RepositoryInfo(path, base_path) ==
    [path |-> path, base_path |-> base_path, supports_parent_diffs |-> <<"True">>]

\* _calculate_hgsubversion_repository_info, given the two fields
SvnRepositoryInfo(c, root, url) ==
    IF root = None \/ url = None THEN c
    ELSE WithResult(c, RepositoryInfo(DropCredentials(root),
                                      SubSeq(url, Len(root) + 1, Len(url))))

\* MercurialClient._calculate_hgsubversion_repository_info
CalculateHgsubversionRepositoryInfo(c, svn_info) ==
    SvnRepositoryInfo([c EXCEPT !.hg.type = "svn"],
                      SvnField(svn_info, "Repository Root: "),
                      SvnField(svn_info, "URL: "))

\* get_repository_info after _init, on the hg_root it read (c.v)
InfoInRoot(c) ==
    IF Falsy(c.v) THEN c
    ELSE IF c.hg.type = "svn"
    THEN CalculateHgsubversionRepositoryInfo(c, c.hg.svn_info)
    ELSE IF c.hg.remote_path # <<>>
    THEN WithResult(c, RepositoryInfo(c.hg.remote_path[2], <<>>))
    ELSE WithResult(c, RepositoryInfo(c.v, <<"/">>))

\* MercurialClient.get_repository_info; check_install(['hg', '--help'])
\* answers env.installed
HgGetRepositoryInfo(c) ==
    IF ~env.installed THEN c ELSE InfoInRoot(HgRoot(InitClient(c)))

-----------------------------------------------------------------------------
(* Bazaar                                                                  *)

\* bazaar.py: USING_PARENT_PREFIX
USING_PARENT_PREFIX == "Using parent branch "

\* The revision `bzr revno` is asked about: the -r argument, None without it
RevnoKey(revision_spec) == IF Falsy(revision_spec) THEN None ELSE revision_spec

\* The number `bzr revno -r SPEC` prints, kept symbolic
RevnoNumber(key) == <<"#">> \o (IF key = None THEN <<"head">> ELSE key)

RevnoShapes == {"one", "parent", "two", "three"}

\* The output of `bzr revno [-r SPEC]`, by the shape the answers give it
RevnoOutput(key, ans) ==
    LET shape == IF key \in DOMAIN ans.shape THEN ans.shape[key] ELSE "one"
        number == RevnoNumber(key) \o <<"\n">>
    IN  CASE shape = "one" -> number
          [] shape = "parent" -> <<USING_PARENT_PREFIX, "/srv/parent", "\n">> \o number
          [] shape = "two" -> <<"note: ", "bound branch", "\n">> \o number
          [] OTHER -> <<"note: ", "a", "\n", "note: ", "b", "\n">> \o number

\* The value a method that falls off its end returns
ImplicitNone == None

\* _get_revno: the value it returns for the lines of the output
RevnoOf(result) ==
    IF Len(result) = 1 THEN <<"revno:">> \o result[1]
    ELSE IF Len(result) = 2 /\ StartsWith(result[1], USING_PARENT_PREFIX)
    THEN <<"revno:">> \o result[2] \o <<":">> \o Tail(result[1])
    ELSE ImplicitNone

\* BazaarClient._get_revno
GetRevno(c, revision_spec, ans) ==
    IF Failed(c) THEN c
    ELSE Ret(Run(c, Lit(<<"bzr", "revno">>)
                    \o (IF ~Falsy(revision_spec)
                        THEN <<<<"-r">>, revision_spec>> ELSE <<>>)),
             RevnoOf(SplitOn(Strip(RevnoOutput(RevnoKey(revision_spec), ans)), "\n")))

\* result['parent_base'] = result['base']
KeepBase(c) == [c EXCEPT !.res = DictSet(@, "parent_base", @.base)]

\* A parse that ignores options.parent_branch
NoShift(c, ans) == c

\* The parent-branch shift that ends BazaarClient.parse_revision_spec
ParentBranchShift(c, ans) ==
    IF Failed(c) THEN c
    ELSE IF ~Falsy(c.opts.parent_branch)
    THEN SetResult(GetRevno(KeepBase(c), <<"ancestor:">> \o c.opts.parent_branch, ans),
                   "base")
    ELSE c

\* The one- and two-revision branch of BazaarClient.parse_revision_spec
BzrRangeSpec(c, revisions, ans) ==
    IF Len(revisions) = 1
    THEN SetResult(
             GetRevno(SetResult(GetRevno(c, <<"before:">> \o revisions[1], ans), "base"),
                      revisions[1], ans),
             "tip")
    ELSE IF Len(revisions) = 2
    THEN SetResult(
             GetRevno(SetResult(GetRevno(c, revisions[1], ans), "base"),
                      revisions[2], ans),
             "tip")
    ELSE Raise(c, "TooManyRevisionsError")

\* A split that leaves a token of three or more parts whole
BzrSplitPairOnly(revisions) ==
    IF Len(revisions) = 1 /\ Len(ReSplit("bzr", revisions[1])) = 2
    THEN ReSplit("bzr", revisions[1]) ELSE revisions

\* REVISION_SEPARATOR_REGEX.split(revisions[0]) of a single revision
BzrSplitRevisions(revisions) ==
    IF Len(revisions) = 1 THEN ReSplit("bzr", revisions[1]) ELSE revisions

\* A parse that reads the first two of too many revisions
BzrParseLenient(c, revisions, ans) ==
    IF Len(revisions) = 0
    THEN SetResult(GetRevno(SetResult(GetRevno(c, None, ans), "tip"),
                            <<"ancestor:">>, ans),
                   "base")
    ELSE IF Len(revisions) > 2 THEN BzrRangeSpec(c, SubSeq(revisions, 1, 2), ans)
    ELSE BzrRangeSpec(c, BzrSplitRevisions(revisions), ans)

\* The branches of BazaarClient.parse_revision_spec on the number of revisions
BzrParseRevisions(c, revisions, ans) ==
    IF Len(revisions) = 0
    THEN SetResult(GetRevno(SetResult(GetRevno(c, None, ans), "tip"),
                            <<"ancestor:">>, ans),
                   "base")
    ELSE IF Len(revisions) = 1 \/ Len(revisions) = 2
    THEN BzrRangeSpec(c, BzrSplitRevisions(revisions), ans)
    ELSE Raise(c, "TooManyRevisionsError")

\* BazaarClient.parse_revision_spec
BzrParseRevisionSpec(c, revisions, ans) ==
    IF Failed(c) THEN c
    ELSE ParentBranchShift(BzrParseRevisions(NoResult(c), revisions, ans), ans)

\* '%s' % x
Fmt(w) == IF w = None THEN <<"None">> ELSE w

\* '%s..%s' % (base, tip)
RangeWord(base, tip) == Fmt(base) \o <<"..">> \o Fmt(tip)

\* `bzr log -r REV --line`: number, committer, date, message
BzrLogLine == <<"3: ", "Joe ", "2012-01-02", " ", "Fix the bug", "\n">>

\* `bzr log -r RANGE --short`
BzrLogShort == <<"    3 Joe", "\n", "      Fix the bug", "\n", "\n">>

IsDate(ch) == ch = "2012-01-02"

\* extract_summary: the log message after its date
AfterDate(c, log_message) ==
    LET hits == {i \in 1..Len(log_message) : IsDate(log_message[i])}
    IN  IF hits = {} THEN Raise(c, "AttributeError")
        ELSE Ret(c, SubSeq(log_message, (CHOOSE i \in hits : \A j \in hits : i <= j) + 2,
                           Len(log_message)))

\* BazaarClient.extract_summary
BzrExtractSummary(c, revision_range) ==
    IF Failed(c) THEN c
    ELSE AfterDate(Run(c, Lit(<<"bzr", "log", "-r">>)
                          \o <<IF ~Falsy(revision_range)
                               THEN SplitOn(revision_range, "..")[2] ELSE <<"-1">>>>
                          \o Lit(<<"--line">>)),
                   RStrip(BzrLogLine))

\* BazaarClient.extract_description
BzrExtractDescription(c, revision_range) ==
    IF Failed(c) THEN c
    ELSE Ret(Run(c, Lit(<<"bzr", "log", "-r">>) \o <<revision_range>>
                    \o Lit(<<"--short">>)),
             RStrip(BzrLogShort))

\* BazaarClient._set_summary
BzrSetSummary(c, revision_range) ==
    IF Failed(c) THEN c
    ELSE IF c.opts.guess_summary /\ Falsy(c.opts.summary)
    THEN AsSummary(BzrExtractSummary(c, revision_range))
    ELSE c

\* BazaarClient._set_description
BzrSetDescription(c, revision_range) ==
    IF Failed(c) THEN c
    ELSE IF c.opts.guess_description /\ Falsy(c.opts.description)
    THEN AsDescription(BzrExtractDescription(c, revision_range))
    ELSE c

\* diff or None
OrNone(diff) == IF diff = <<>> THEN None ELSE diff

\* BazaarClient._get_range_diff; v = the diff
GetRangeDiff(c, base, tip, files, output) ==
    IF Failed(c) THEN c
    ELSE Ret(Run(c, Lit(<<"bzr", "diff", "-q", "-r">>) \o <<RangeWord(base, tip)>>
                    \o files),
             OrNone(output))

\* A _get_diff that never makes the parent diff
BzrNoParentDiff(c, revisions, files, ans) == Ret(c, None)

\* _get_diff: the parent diff, None without a parent_base
BzrParentDiff(c, revisions, files, ans) ==
    IF "parent_base" \in DOMAIN revisions
    THEN GetRangeDiff(c, revisions.parent_base, revisions.base, files, ans.parent_diff)
    ELSE Ret(c, None)

\* BazaarClient._get_diff
BzrGetDiff(c, revisions, files, ans) ==
    IF Failed(c) THEN c
    ELSE SetResult(
             BzrParentDiff(
                 SetResult(GetRangeDiff(NoResult(c), revisions.base, revisions.tip,
                                        files, ans.diff),
                           "diff"),
                 revisions, files, ans),
             "parent_diff")

\* The tail BazaarClient.diff and diff_between_revisions share
BzrDiffOf(c, files, ans) ==
    IF Failed(c) THEN c
    ELSE BzrGetDiff(
             BzrSetDescription(
                 BzrSetSummary(c, RangeWord(c.res.base, c.res.tip)),
                 RangeWord(c.res.base, c.res.tip)),
             c.res, files, ans)

\* BazaarClient.diff
BzrDiff(c, files, ans) == BzrDiffOf(BzrParseRevisionSpec(c, <<>>, ans), files, ans)

\* BazaarClient.diff_between_revisions
BzrDiffBetweenRevisions(c, revision_range, files, ans) ==
    BzrDiffOf(BzrParseRevisionSpec(c, revision_range, ans), files, ans)

-----------------------------------------------------------------------------
(* Inputs and answers                                                      *)

TokA == <<"a">>
TokB == <<"b">>
TokDots == <<"a", ".", ".", "b">>
TokColons == <<"a", ":", ":", "b">>
TokThree == <<"a", ".", ".", "b", ":", ":", "a">>

\* The revision lists of the client-lifecycle runs: 0 to 4 tokens
SmallRevisionLists ==
    {<<>>, <<TokA>>, <<TokDots>>, <<TokColons>>, <<TokThree>>,
     <<TokA, TokB>>, <<TokA, TokB, TokA>>, <<TokA, TokB, TokA, TokB>>}

\* The characters of a revision token
TokenAlphabet == {"a", ".", ":", "/"}

\* Every token of 1 to MaxTokLen characters
Tokens == UNION {[1..n -> TokenAlphabet] : n \in 1..MaxTokLen}

\* The revision lists of the token-splitting runs: every single token
TokenLists == {<<t>> : t \in Tokens}

FileLists == {<<>>, <<<<"f1.py">>>>, <<<<"f1.py">>, <<"f2.py">>>>}

Diffs == {<<>>, <<"diff -r 1 -r 2 f1.py", "\n">>}

\* The revisions a parse of `revisions` may ask the tool to resolve
Atoms(kind, revisions) ==
    IF Len(revisions) = 1
    THEN LET parts == ReSplit(kind, revisions[1])
         IN  {parts[i] : i \in 1..Len(parts)}
    ELSE {revisions[i] : i \in 1..Len(revisions)}

\* At most one revision of `atoms` is unknown to the tool
BadSets(atoms) == {{}} \cup {{x} : x \in atoms}

\* An outgoing changeset as the tool reports it: "here" is on the current
\* branch (printed empty when that is default), "there" on another one
Changeset(kind, rev, current) ==
    [branch |-> IF kind = "there" THEN <<"other">>
                ELSE IF current = <<"default">> THEN <<>> ELSE current,
     rev |-> IF kind \in {"blank", "warning"} THEN <<>>
             ELSE IF kind = "odd" THEN IntWord(rev) \o <<"+">>
             ELSE IntWord(rev),
     warn |-> (kind \in {"there", "warned", "warning"})]

RECURSIVE ChangesetsFrom(_, _, _)
ChangesetsFrom(pick, rev, current) ==
    IF rev > MaxRev THEN <<>>
    ELSE (IF pick[rev] = "absent" THEN <<>>
          ELSE <<Changeset(pick[rev], rev, current)>>)
         \o ChangesetsFrom(pick, rev + 1, current)

\* The parents the tool may print for revision rev: nothing (the parent is
\* rev - 1), one parent, or the two parents of a merge; a parent is older
ParentChoices(rev) ==
    {<<>>} \cup {<<q>> : q \in (-1)..(rev - 1)}
    \cup {<<q, r>> : <<q, r>> \in {x \in (0..(rev - 1)) \X (0..(rev - 1)) : x[1] # x[2]}}

EmptyMap == [k \in {} |-> <<>>]

\* Every choice of parents for the revisions of `revs`
RECURSIVE ParentMaps(_)
ParentMaps(revs) ==
    IF revs = {} THEN {EmptyMap}
    ELSE LET r == CHOOSE x \in revs : TRUE
         IN  {DictSet(m, r, ps) : m \in ParentMaps(revs \ {r}), ps \in ParentChoices(r)}

\* Every outgoing report over the revisions 0..MaxRev, in ascending order as
\* the tool prints it, with the parents of the changesets on the current branch
OutgoingScenarios ==
    UNION { UNION { { [branch |-> current \o <<"\n">>,
                       changesets |-> ChangesetsFrom(pick, 0, current),
                       parents |-> ps] :
                      ps \in ParentMaps({r \in 0..MaxRev : pick[r] = "here"}) } :
                    pick \in [0..MaxRev -> {"absent", "here", "there"}] } :
            current \in {<<"default">>, <<"stable">>} }

\* Nothing is outgoing
NoOutgoing == [branch |-> <<"default", "\n">>, changesets |-> <<>>, parents |-> EmptyMap]

\* Two changesets of the default branch around one of another branch
SomeOutgoing ==
    [branch |-> <<"default", "\n">>,
     changesets |-> <<Changeset("here", 1, <<"default">>),
                      Changeset("there", 2, <<"default">>),
                      Changeset("here", 3, <<"default">>)>>,
     parents |-> (1 :> <<0>>) @@ (3 :> <<1>>)]

\* The outgoing reports of the client-lifecycle runs
SmallScenarios ==
    {NoOutgoing, SomeOutgoing,
     [branch |-> <<"stable", "\n">>,
      changesets |-> <<Changeset("here", 0, <<"stable">>)>>,
      parents |-> (0 :> <<-1>>)]}

\* What the outgoing query may print for a revision: nothing, a changeset of
\* the current branch (after a warning of the transport, or with a revision
\* that is not a number), a changeset of another branch after a warning, a
\* blank block, a block that holds only a warning
FilterKinds == {"absent", "here", "warned", "odd", "there", "blank", "warning"}

\* The query failed: the repository of the remote was not found
AbortedOutgoing ==
    [branch |-> <<"default", "\n">>, changesets |-> <<>>, parents |-> EmptyMap,
     exit |-> 255]

\* The outgoing reports of the filtering runs, each with its exit status: 1
\* when no changeset is outgoing, 0 otherwise
FilterScenarios ==
    {[branch |-> current \o <<"\n">>,
      changesets |-> ChangesetsFrom(pick, 0, current),
      parents |-> EmptyMap,
      exit |-> IF \A r \in 0..MaxRev : pick[r] \in {"absent", "blank", "warning"}
               THEN 1 ELSE 0] :
         pick \in [0..MaxRev -> FilterKinds],
         current \in {<<"default">>, <<"stable">>}}
    \cup {SomeOutgoing @@ ("exit" :> 0), AbortedOutgoing}

\* The top revision of an outgoing report, as the tool is asked about it
TopWord(sc) ==
    IF sc.changesets = <<>> THEN {} ELSE {sc.changesets[Len(sc.changesets)].rev}

\* The exit status of the outgoing query: the status a report gives, else 1
\* when nothing is outgoing and 0 otherwise
ExitOf(sc) ==
    IF "exit" \in DOMAIN sc THEN sc.exit
    ELSE IF \A i \in 1..Len(sc.changesets) : sc.changesets[i].rev = <<>> THEN 1
    ELSE 0

HgAns(sc, bad, noparent, diff) ==
    [bad |-> bad, noparent |-> noparent, branch |-> sc.branch,
     changesets |-> sc.changesets, parents |-> sc.parents, exit |-> ExitOf(sc),
     diff |-> diff, parent_diff |-> <<>>]

\* The answers a Mercurial parse of `revisions` may get: an unknown revision
\* where the parse resolves one, a tip without parents where it asks for them
HgParseAnswers(revisions, scenarios) ==
    IF revisions = <<>>
    THEN UNION {{HgAns(sc, bad, FALSE, <<>>) :
                     bad \in BadSets(TopWord(sc))} :
                sc \in scenarios}
    ELSE LET atoms == Atoms("hg", revisions)
             many == Len(revisions) > 2 \/ Cardinality(atoms) > 2
             single == Len(revisions) = 1 /\ Len(ReSplit("hg", revisions[1])) = 1
         IN  {HgAns(NoOutgoing, bad, FALSE, <<>>) :
                  bad \in {b \in BadSets(atoms) : b = {} \/ ~many}}
             \cup (IF single THEN {HgAns(NoOutgoing, {}, TRUE, <<>>)} ELSE {})

\* The answers diff(files) may get: an outgoing report, a top revision the
\* tool cannot identify, a diff that may be empty
HgDiffAnswers ==
    {HgAns(NoOutgoing, {}, FALSE, <<>>), HgAns(SomeOutgoing, {IntWord(3)}, FALSE, <<>>)}
    \cup {HgAns(SomeOutgoing, {}, FALSE, d) : d \in Diffs}

\* The answers diff_between_revisions may get: those of the parse, and a
\* diff that may be empty when the parse succeeds
HgRangeAnswers(range) ==
    HgParseAnswers(<<range>>, {NoOutgoing})
    \cup {HgAns(NoOutgoing, {}, FALSE, d) : d \in Diffs}

HgLogAnswers(range) ==
    IF range = None THEN {HgAns(sc, {}, FALSE, <<>>) : sc \in {NoOutgoing, SomeOutgoing}}
    ELSE {HgAns(NoOutgoing, {}, np, <<>>) : np \in BOOLEAN}

\* The ranges handed to diff_between_revisions, extract_summary and
\* extract_description
Ranges == {TokA, TokDots, <<"a", ":", "b">>}

\* The revisions a Bazaar parse of `revisions` asks `bzr revno` about
BzrQueries(revisions, o) ==
    LET n == Len(revisions)
        parts == IF n = 1 THEN ReSplit("bzr", revisions[1]) ELSE revisions
    IN  (IF n = 0 THEN {None, <<"ancestor:">>}
         ELSE IF n > 2 \/ Len(parts) > 2 THEN {}
         ELSE IF Len(parts) = 1 THEN {<<"before:">> \o parts[1], RevnoKey(parts[1])}
         ELSE {RevnoKey(parts[1]), RevnoKey(parts[2])})
        \cup (IF ~Falsy(o.parent_branch) /\ n <= 2 /\ Len(parts) <= 2
              THEN {<<"ancestor:">> \o o.parent_branch} ELSE {})

\* The answers a Bazaar call may get: at most one `bzr revno` output that is
\* not a single line, and the outputs of the diff and of the parent diff
BzrAnswers(revisions, o, shapes, diffs) ==
    LET queries == BzrQueries(revisions, o)
        plain == [q \in queries |-> "one"]
    IN  {[shape |-> f, diff |-> d, parent_diff |-> pd] :
             f \in {plain} \cup {[plain EXCEPT ![q] = sh] : q \in queries, sh \in shapes},
             d \in diffs,
             pd \in (IF ~Falsy(o.parent_branch) THEN diffs ELSE {<<>>})}

-----------------------------------------------------------------------------
(* The state machine                                                       *)

\* self.options, as the command line sets it
Options ==
    {[parent_branch |-> pb, guess_summary |-> g, guess_description |-> g,
      summary |-> None, description |-> None] :
         pb \in {None, <<"pb">>}, g \in BOOLEAN}

NoCall ==
    [op |-> "none", revisions |-> <<>>, range |-> None, files |-> <<>>,
     ans |-> HgAns(NoOutgoing, {}, FALSE, <<>>), status |-> "None",
     res |-> EmptyDict, cmds |-> <<>>, hidden_aware |-> <<>>,
     pre |-> [hg |-> HgNew, opts |-> CHOOSE o \in Options : TRUE, probes |-> NoProbes]]

\* The options of the runs that vary the tokens or the outgoing report
ParseOptions == {o \in Options : ~o.guess_summary}

\* The token and the outgoing report of the runs that vary neither
NoGiven == [token |-> TokA, outgoing |-> NoOutgoing]

\* The environment of the runs that vary the tokens or the outgoing report
PlainEnv(h) ==
    [installed |-> TRUE, root |-> RootFound, svn_info |-> SvnAbort, hidden |-> h,
     paths |-> {"default"}]

InitWith(clients, environments, options, givens) ==
    /\ client \in clients
    /\ env \in (IF client = "Bazaar" THEN {PlainEnv(TRUE)} ELSE environments)
    /\ opts \in options
    /\ given \in givens
    /\ hg = HgNew
    /\ probes = NoProbes
    /\ last = NoCall

Init == InitWith({"Bazaar", "Mercurial"}, Environments, Options, {NoGiven})

\* How the call ended: an exception, a None, or a value
Status(c) ==
    IF Failed(c) THEN c.err ELSE IF c.res = EmptyDict THEN "None" ELSE "ok"

\* The call returns (or raises): the instance and the options keep what the
\* call did to them, and the call is recorded
Return(op, revisions, range, files, ans, c) ==
    /\ hg' = c.hg
    /\ opts' = c.opts
    /\ probes' = c.probes
    /\ last' = [op |-> op, revisions |-> revisions, range |-> range, files |-> files,
                ans |-> ans, status |-> Status(c), res |-> c.res, cmds |-> c.cmds,
                hidden_aware |-> c.hidden_aware,
                pre |-> [hg |-> hg, opts |-> opts, probes |-> probes]]
    /\ UNCHANGED <<client, env, given>>

Now == Ctx(hg, opts, probes)

IsHg == client = "Mercurial" /\ env.installed

\* get_repository_info()
HgDiscover ==
    /\ client = "Mercurial"
    /\ Return("discover", <<>>, None, <<>>, NoCall.ans, HgGetRepositoryInfo(Now))

\* parse_revision_spec(revisions)
HgParseOp(lists, scenarios) ==
    /\ IsHg
    /\ \E revisions \in lists :
         \E ans \in HgParseAnswers(revisions, scenarios) :
           Return("parse", revisions, None, <<>>, ans,
                  HgParseRevisionSpec(Now, revisions, ans))

HgParse == HgParseOp(SmallRevisionLists, SmallScenarios)

\* diff(files)
HgDiffOp ==
    /\ IsHg
    /\ \E files \in FileLists, ans \in HgDiffAnswers :
         Return("diff", <<>>, None, files, ans, HgDiff(Now, files, ans))

\* diff_between_revisions(revision_range, args, repository_info)
HgDiffBetweenOp ==
    /\ IsHg
    /\ \E range \in Ranges, files \in {<<>>, <<<<"f1.py">>>>} :
         \E ans \in HgRangeAnswers(range) :
           /\ files = <<>> \/ range = TokDots
           /\ Return("diff_between", <<>>, range, files, ans,
                     HgDiffBetweenRevisions(Now, range, files, ans))

\* extract_summary(revision_range)
HgSummaryOp ==
    /\ IsHg
    /\ \E range \in Ranges \cup {None} :
         \E ans \in HgLogAnswers(range) :
           Return("summary", <<>>, range, <<>>, ans,
                  SetResult(HgExtractSummary(Now, range, ans), "value"))

\* extract_description(revision_range)
HgDescriptionOp ==
    /\ IsHg
    /\ \E range \in Ranges \cup {None} :
         \E ans \in HgLogAnswers(range) :
           Return("description", <<>>, range, <<>>, ans,
                  SetResult(HgExtractDescription(Now, range, ans), "value"))

\* BazaarClient.parse_revision_spec(revisions)
BzrParseOp(lists, shapes) ==
    /\ client = "Bazaar"
    /\ \E revisions \in lists :
         \E ans \in BzrAnswers(revisions, opts, shapes, {<<>>}) :
           Return("parse", revisions, None, <<>>, ans,
                  BzrParseRevisionSpec(Now, revisions, ans))

BzrParse == BzrParseOp(SmallRevisionLists, RevnoShapes)

\* BazaarClient.diff(files)
BzrDiffOp ==
    /\ client = "Bazaar"
    /\ \E files \in FileLists :
         \E ans \in BzrAnswers(<<>>, opts, {"one", "parent"}, Diffs) :
           Return("diff", <<>>, None, files, ans, BzrDiff(Now, files, ans))

\* BazaarClient.diff_between_revisions(revision_range, files, repository_info)
BzrDiffBetweenOp ==
    /\ client = "Bazaar"
    /\ \E revisions \in {<<TokA>>, <<TokDots>>, <<TokA, TokB>>, <<TokA, TokB, TokA>>},
          files \in FileLists :
         \E ans \in BzrAnswers(revisions, opts, {"one", "parent"}, Diffs) :
           Return("diff_between", revisions, None, files, ans,
                  BzrDiffBetweenRevisions(Now, revisions, files, ans))

Next ==
    \/ HgDiscover
    \/ HgParse
    \/ HgDiffOp
    \/ HgDiffBetweenOp
    \/ HgSummaryOp
    \/ HgDescriptionOp
    \/ BzrParse
    \/ BzrDiffOp
    \/ BzrDiffBetweenOp

Spec == Init /\ [][Next]_vars

\* The remote path under every configuration
InitConfig == InitWith({"Mercurial"}, ConfigEnvironments, ParseOptions, {NoGiven})

NextConfig ==
    \/ HgDiscover
    \/ HgParse

SpecConfig == InitConfig /\ [][NextConfig]_vars

\* A token that chains two range separators
TokChain == <<"a", ".", ".", "b", ".", ".", "a">>

\* Every single revision token, parsed by both clients
InitTokens ==
    InitWith({"Bazaar", "Mercurial"}, {PlainEnv(TRUE)}, ParseOptions,
             {[NoGiven EXCEPT !.token = t] : t \in Tokens \cup {TokChain}})

HgParseToken == HgParseOp({<<given.token>>, HgSplitRevisions(<<given.token>>)}, {NoOutgoing})

BzrParseToken ==
    BzrParseOp({<<given.token>>, BzrSplitRevisions(<<given.token>>)}, {"one", "parent"})

NextTokens ==
    \/ HgParseToken
    \/ BzrParseToken

SpecTokens == InitTokens /\ [][NextTokens]_vars

\* Every outgoing report, parsed without revisions
InitOutgoing ==
    InitWith({"Mercurial"}, {PlainEnv(TRUE)}, ParseOptions,
             {[NoGiven EXCEPT !.outgoing = sc] : sc \in OutgoingScenarios})

HgParseOutgoing == HgParseOp({<<>>}, {given.outgoing})

NextOutgoing ==
    \/ HgDiscover
    \/ HgParseOutgoing

SpecOutgoing == InitOutgoing /\ [][NextOutgoing]_vars

\* The revision specs handed to _diff, as the list base, tip[, parent_base]
RoutineSpecs ==
    {<<<<"@", "a">>, <<"@", "b">>>>, <<<<"@", "a">>, <<"@", "b">>, <<"@", "p">>>>}

\* The dictionary of a revision spec
SpecDict(revisions) ==
    IF Len(revisions) = 3
    THEN [base |-> revisions[1], tip |-> revisions[2], parent_base |-> revisions[3]]
    ELSE [base |-> revisions[1], tip |-> revisions[2]]

\* _init has run on the instance, as it has wherever _diff is called
InitRan == hg.initted \/ (hg.has_hg_root /\ Falsy(hg.hg_root))

\* _diff(revisions, files)
HgDiffRoutineOp ==
    /\ IsHg
    /\ InitRan
    /\ \E revisions \in RoutineSpecs, files \in {<<>>, <<<<"f1.py">>>>}, d \in Diffs :
         Return("routine", revisions, None, files,
                [HgAns(NoOutgoing, {}, FALSE, d) EXCEPT !.parent_diff = d],
                HgDiffRevisions(Now, SpecDict(revisions), files,
                                [HgAns(NoOutgoing, {}, FALSE, d) EXCEPT !.parent_diff = d]))

\* The Mercurial parses and diffs, and the two-revision diff routine itself
InitRoutine == InitWith({"Mercurial"}, Environments, Options, {NoGiven})

NextRoutine ==
    \/ HgDiscover
    \/ HgParse
    \/ HgDiffOp
    \/ HgDiffBetweenOp
    \/ HgDiffRoutineOp

SpecRoutine == InitRoutine /\ [][NextRoutine]_vars

\* Every shape of the outgoing report, parsed without revisions
InitFilter ==
    InitWith({"Mercurial"}, {PlainEnv(TRUE)}, ParseOptions,
             {[NoGiven EXCEPT !.outgoing = sc] : sc \in FilterScenarios})

SpecFilter == InitFilter /\ [][NextOutgoing]_vars

-----------------------------------------------------------------------------
(* Properties                                                              *)

IsParse == last.op = "parse"

Succeeded == last.status = "ok"

Has(key) == key \in DOMAIN last.res

\* The parse of `revisions` by the same instance, under the same options and
\* the same answers as the last call
ParseAgain(revisions) ==
    IF client = "Mercurial"
    THEN HgParseRevisionSpec(Ctx(last.pre.hg, last.pre.opts, last.pre.probes),
                             revisions, last.ans)
    ELSE BzrParseRevisionSpec(Ctx(last.pre.hg, last.pre.opts, last.pre.probes),
                              revisions, last.ans)

\* The identity the tool's answers give a revision: the first field of the
\* identify output, the revno the revision-number query returns
Resolved(revision) ==
    IF client = "Mercurial" THEN Fields(IdentifyOutput(revision))[1]
    ELSE RevnoOf(SplitOn(Strip(RevnoOutput(RevnoKey(revision), last.ans)), "\n"))

\* The revision resolves: the identify query succeeds, the revision-number
\* query answers a number
Resolves(revision) ==
    IF client = "Mercurial" THEN revision \notin last.ans.bad
    ELSE Resolved(revision) # None

ParentBranchSet == ~Falsy(last.pre.opts.parent_branch)

AncestorOfParent == <<"ancestor:">> \o last.pre.opts.parent_branch

\* The last call parsed two tokens that both resolve
ParsedTwo ==
    /\ IsParse
    /\ Len(last.revisions) = 2
    /\ Resolves(last.revisions[1])
    /\ Resolves(last.revisions[2])

\* C1 as stated: in both clients and under every setting of the options, the
\* parse of two tokens that resolve returns base = the identity of token 0 and
\* tip = the identity of token 1, without a parent_base.
C1_AsStated ==
    ParsedTwo =>
        /\ Succeeded
        /\ last.res.base = Resolved(last.revisions[1])
        /\ last.res.tip = Resolved(last.revisions[2])
        /\ ~Has("parent_base")

\* C1, amended: the parse of two tokens that resolve returns tip = the identity
\* of token 1; Mercurial always, and Bazaar without options.parent_branch,
\* return base = the identity of token 0 and no parent_base; Bazaar with
\* options.parent_branch set returns parent_base = the identity of token 0 and
\* base = the revno of 'ancestor:<parent_branch>'.
C1_TwoTokens ==
    ParsedTwo =>
        /\ Succeeded
        /\ last.res.tip = Resolved(last.revisions[2])
        /\ IF client = "Bazaar" /\ ParentBranchSet
           THEN /\ Has("parent_base")
                /\ last.res.parent_base = Resolved(last.revisions[1])
                /\ last.res.base = Resolved(AncestorOfParent)
           ELSE /\ last.res.base = Resolved(last.revisions[1])
                /\ ~Has("parent_base")

\* Bazaar parsed two tokens under options.parent_branch
C1_Witness ==
    /\ ParsedTwo
    /\ client = "Bazaar"
    /\ ParentBranchSet
    /\ Succeeded
    /\ Has("parent_base")

Kind == IF client = "Mercurial" THEN "hg" ELSE "bzr"

\* The single token of the last parse splits on the client's range separator
\* into exactly two parts, neither of them empty
SplitsInTwo ==
    /\ IsParse
    /\ Len(last.revisions) = 1
    /\ Len(ReSplit(Kind, last.revisions[1])) = 2
    /\ ReSplit(Kind, last.revisions[1])[1] # <<>>
    /\ ReSplit(Kind, last.revisions[1])[2] # <<>>

\* C2: in both clients, the parse of a single token that splits on the range
\* separator into exactly two non-empty parts returns what the parse of the
\* list of the two parts returns, or raises the same error, under the same
\* answers and options.
C2_SplitEquivalence ==
    SplitsInTwo =>
        /\ last.status = Status(ParseAgain(ReSplit(Kind, last.revisions[1])))
        /\ last.res = ParseAgain(ReSplit(Kind, last.revisions[1])).res

\* A token with a separator was parsed into a base and a tip
C2_Witness == SplitsInTwo /\ Succeeded /\ Has("base") /\ Has("tip")

\* The parse of three or more tokens raises TooManyRevisionsError
TooManyRaise ==
    (IsParse /\ Len(last.revisions) >= 3) =>
        (last.status = "TooManyRevisionsError" /\ last.res = EmptyDict)

BzrParsedNone == client = "Bazaar" /\ IsParse /\ last.revisions = <<>>

\* C3 as stated: the parse of three or more tokens always raises
\* TooManyRevisionsError in both clients and returns nothing; the Bazaar parse
\* of no token never raises TooManyRevisionsError or
\* InvalidRevisionSpecError: it returns tip = the revno of the head and
\* base = the revno of 'ancestor:'.
C3_AsStated ==
    /\ TooManyRaise
    /\ BzrParsedNone =>
           /\ Succeeded
           /\ last.res.tip = Resolved(None)
           /\ last.res.base = Resolved(<<"ancestor:">>)

\* C3, amended: the parse of three or more tokens always raises
\* TooManyRevisionsError in both clients and returns nothing; the Bazaar parse
\* of no token raises nothing and returns tip = what the revision-number
\* query returns for the head; without options.parent_branch base = what it
\* returns for 'ancestor:', with it parent_base = what it returns for
\* 'ancestor:' and base = what it returns for 'ancestor:<parent_branch>'.
C3_TokenCount ==
    /\ TooManyRaise
    /\ BzrParsedNone =>
           /\ Succeeded
           /\ last.res.tip = Resolved(None)
           /\ IF ParentBranchSet
              THEN /\ Has("parent_base")
                   /\ last.res.parent_base = Resolved(<<"ancestor:">>)
                   /\ last.res.base = Resolved(AncestorOfParent)
              ELSE /\ last.res.base = Resolved(<<"ancestor:">>)
                   /\ ~Has("parent_base")

\* Bazaar was handed three tokens and raised
C3_Witness ==
    /\ client = "Bazaar"
    /\ IsParse
    /\ Len(last.revisions) = 3
    /\ last.status = "TooManyRevisionsError"

\* C4: in both clients the diff field of the result of diff(files) is None
\* exactly when the diff command of the range printed nothing.
C4_NullDiff ==
    (last.op = "diff" /\ Succeeded /\ Has("diff")) =>
        (last.res.diff = None <=> last.ans.diff = <<>>)

\* C5: Mercurial. When the probe for hidden changesets reported false, no
\* command handed to the process utility but the probe holds '--hidden',
\* whatever the operation; every command built with the flag reaches the
\* process utility with its arguments in the same order, with the flag when
\* the probe reported true and with only the flag removed when it did not.
C5_HiddenFlag ==
    client = "Mercurial" =>
        /\ ~env.hidden =>
               \A i \in 1..Len(last.cmds) :
                   last.cmds[i] # HiddenProbeCmd => ~InSeq(<<"--hidden">>, last.cmds[i])
        /\ \A k \in 1..Len(last.hidden_aware) :
               last.cmds[last.hidden_aware[k].at] =
                   (IF env.hidden THEN last.hidden_aware[k].asked
                    ELSE Without(last.hidden_aware[k].asked, <<"--hidden">>))
                   \o ExtConfig

\* A command built with the flag was run where the probe reported false
C5_Witness ==
    /\ client = "Mercurial"
    /\ ~env.hidden
    /\ \E k \in 1..Len(last.hidden_aware) :
           InSeq(<<"--hidden">>, last.hidden_aware[k].asked)

\* The branch a changeset is reported on
BranchOf(cs) == IF Strip(cs.branch) = <<>> THEN <<"default">> ELSE Strip(cs.branch)

\* The outgoing revisions of the current branch, in the order reported
RECURSIVE OnBranch(_, _)
OnBranch(changesets, branch) ==
    IF changesets = <<>> THEN <<>>
    ELSE (IF BranchOf(Head(changesets)) = branch /\ IsDigit(Head(changesets).rev)
          THEN <<ParseInt(Head(changesets).rev)>> ELSE <<>>)
         \o OnBranch(Tail(changesets), branch)

Outgoing == OnBranch(last.ans.changesets, Strip(last.ans.branch))

\* The parents of the i-th outgoing revision that are not outgoing
External(i) ==
    SelectSeq(ParentsOf(last.ans, Outgoing[i]), LAMBDA q : ~InSeq(q, Outgoing))

\* The outgoing revisions that have an external parent
WithExternal == {i \in 1..Len(Outgoing) : External(i) # <<>>}

\* The most recent of them
MostRecentWithExternal == CHOOSE i \in WithExternal : \A j \in WithExternal : j <= i

Top == Outgoing[Len(Outgoing)]

\* The bottom boundary: the external parent of the most recent revision that
\* has one, else the revision before the least recent outgoing one
Bottom ==
    IF WithExternal # {} THEN Max(0, External(MostRecentWithExternal)[1])
    ELSE Max(0, Outgoing[1] - 1)

\* The bottom boundary that defaults to top - 1
BottomAsStated ==
    IF WithExternal # {} THEN Max(0, External(MostRecentWithExternal)[1])
    ELSE Max(0, Top - 1)

PlainMode == client = "Mercurial" /\ env.root = RootFound /\ ~IsBridged(env)

HgParsedNone == PlainMode /\ IsParse /\ last.revisions = <<>>

\* C6: Mercurial, plain mode, parse of no token. With no outgoing changeset
\* on the current branch the call raises InvalidRevisionSpecError; otherwise
\* it returns base = identify(bottom) and tip = identify(top), and raises
\* InvalidRevisionSpecError when an identify query fails.
C6_OutgoingSpec ==
    HgParsedNone =>
        IF Outgoing = <<>> THEN last.status = "InvalidRevisionSpecError"
        ELSE IF IntWord(Bottom) \in last.ans.bad \/ IntWord(Top) \in last.ans.bad
        THEN last.status = "InvalidRevisionSpecError"
        ELSE /\ Succeeded
             /\ last.res.base = Resolved(IntWord(Bottom))
             /\ last.res.tip = Resolved(IntWord(Top))

\* A command of the outgoing-changeset path
IsOutgoingCmd(cmd) ==
    \/ cmd = Lit(<<"hg", "branch">>)
    \/ (Len(cmd) >= 3 /\ cmd[3] = <<"outgoing">>)

\* C7: Mercurial. In a working copy bridged to Subversion, diff(files) runs
\* the bridged diff command and returns a result that holds only diff, and
\* never enters the outgoing-changeset path, after every sequence of calls,
\* the empty one included.
C7_BridgedDiff ==
    (client = "Mercurial" /\ IsBridged(env) /\ last.op = "diff") =>
        /\ Succeeded
        /\ DOMAIN last.res = {"diff"}
        /\ \E i \in 1..Len(last.cmds) :
               Len(last.cmds[i]) >= 4 /\ last.cmds[i][4] = <<"--svn">>
        /\ \A i \in 1..Len(last.cmds) : ~IsOutgoingCmd(last.cmds[i])

\* The value the configuration gives a path
PathValue(name) == <<"http://", name>>

\* The first defined name, in the order reviewboard, origin, parent, default
FirstDefined(paths) ==
    IF "reviewboard" \in paths THEN "reviewboard"
    ELSE IF "origin" \in paths THEN "origin"
    ELSE IF "parent" \in paths THEN "parent"
    ELSE "default"

\* C8: Mercurial, plain mode. After initialisation the selected remote is
\* (name, value) for the first of reviewboard, origin, parent, default that
\* the configuration defines, and none when it defines none; discovery then
\* returns path = that value and base_path = "" when a remote was selected,
\* path = the repository root and base_path = "/" otherwise.
C8_RemoteSelection ==
    (PlainMode /\ hg.initted) =>
        /\ hg.remote_path =
               (IF env.paths = {} THEN <<>>
                ELSE <<<<FirstDefined(env.paths)>>, PathValue(FirstDefined(env.paths))>>)
        /\ last.op = "discover" =>
               /\ Succeeded
               /\ last.res.path = (IF env.paths = {} THEN Strip(env.root)
                                   ELSE PathValue(FirstDefined(env.paths)))
               /\ last.res.base_path = (IF env.paths = {} THEN <<"/">> ELSE <<>>)

\* Discovery where origin is defined after default and before parent
C8_Witness ==
    /\ PlainMode
    /\ last.op = "discover"
    /\ {"origin", "parent", "default"} \subseteq env.paths
    /\ "reviewboard" \notin env.paths
    /\ Succeeded

\* C9: in both clients a revision spec that the parse returns has base and
\* tip, neither of them None, whatever the queries answer; it has a
\* parent_base only when options.parent_branch asked for one.
C9_BaseAndTip ==
    (IsParse /\ Succeeded) =>
        /\ Has("base") /\ last.res.base # None
        /\ Has("tip") /\ last.res.tip # None
        /\ Has("parent_base") => ParentBranchSet

HgParsedOutgoing == HgParsedNone /\ Succeeded /\ Outgoing # <<>>

\* C10 as stated: scanning the outgoing revisions from the most recent, the
\* first that has a parent outside the list fixes bottom to that parent,
\* clamped to 0; when none has one, bottom is top - 1 clamped to 0.
C10_AsStated ==
    HgParsedOutgoing => last.res.base = Resolved(IntWord(BottomAsStated))

\* C10, amended: scanning the outgoing revisions from the most recent, the
\* first that has a parent outside the list fixes bottom to its first such
\* parent, clamped to 0; when none has one, bottom is the least recent
\* outgoing revision - 1 clamped to 0, which is top - 1 for a list of one.
C10_Bottom ==
    HgParsedOutgoing => last.res.base = Resolved(IntWord(Bottom))

\* Two outgoing revisions, none of them with a parent outside the list
C10_Witness ==
    /\ HgParsedOutgoing
    /\ Len(Outgoing) >= 2
    /\ WithExternal = {}

\* The remotes handed to the outgoing queries of the last call
RemotesAsked ==
    {last.cmds[i][Len(last.cmds[i])] :
         i \in {j \in 1..Len(last.cmds) :
                    Len(last.cmds[j]) >= 3 /\ last.cmds[j][3] = <<"outgoing">>}}

\* C11: Mercurial, plain mode, discovery of the outgoing changesets by the
\* parse of no token. The remote handed to the outgoing query is the name of
\* the remote path selected at initialisation when one was selected, and
\* options.parent_branch otherwise; with no candidate path defined and
\* options.parent_branch set, discovery runs the query on options.parent_branch
\* and does not fail for the missing remote.
C11_RemoteChoice ==
    HgParsedNone =>
        IF hg.remote_path # <<>> THEN RemotesAsked = {hg.remote_path[1]}
        ELSE ParentBranchSet =>
                 /\ last.status # "IndexError"
                 /\ RemotesAsked = {last.pre.opts.parent_branch}

BzrParsedOne == client = "Bazaar" /\ IsParse /\ Len(last.revisions) = 1

\* The parts REVISION_SEPARATOR_REGEX splits the single token into
BzrParts == ReSplit("bzr", last.revisions[1])

\* The last parse ended as the parse of the two parts ends
AsTwoTokens ==
    /\ last.status = Status(ParseAgain(BzrParts))
    /\ last.res = ParseAgain(BzrParts).res

BeforeToken == <<"before:">> \o last.revisions[1]

\* C12 as stated: the Bazaar parse of one token. A token that splits on '..'
\* into exactly two parts is parsed as the list of the two parts; every other
\* token (no separator, or three or more parts) gives tip = the revno of the
\* whole token and base = the revno of 'before:<token>', and
\* TooManyRevisionsError is not raised.
C12_AsStated ==
    BzrParsedOne =>
        IF Len(BzrParts) = 2 THEN AsTwoTokens
        ELSE /\ Succeeded
             /\ last.res.tip = Resolved(last.revisions[1])
             /\ last.res.base = Resolved(BeforeToken)

\* C12, amended: the Bazaar parse of one token. A token that splits on '..'
\* into exactly two parts is parsed as the list of the two parts; a token
\* without a separator gives tip = the revno of the token and, without
\* options.parent_branch, base = the revno of 'before:<token>' (with it,
\* parent_base = that revno and base = the revno of
\* 'ancestor:<parent_branch>'); a token that splits into three or more parts
\* raises TooManyRevisionsError.
C12_SingleToken ==
    BzrParsedOne =>
        IF Len(BzrParts) = 2 THEN AsTwoTokens
        ELSE IF Len(BzrParts) >= 3
        THEN last.status = "TooManyRevisionsError" /\ last.res = EmptyDict
        ELSE /\ Succeeded
             /\ last.res.tip = Resolved(last.revisions[1])
             /\ IF ParentBranchSet
                THEN /\ Has("parent_base")
                     /\ last.res.parent_base = Resolved(BeforeToken)
                     /\ last.res.base = Resolved(AncestorOfParent)
                ELSE /\ last.res.base = Resolved(BeforeToken)
                     /\ ~Has("parent_base")

\* Bazaar parsed one token that chains two separators
C12_Witness ==
    /\ BzrParsedOne
    /\ last.revisions = <<TokChain>>
    /\ Len(BzrParts) = 3
    /\ last.status = "TooManyRevisionsError"

\* _get_outgoing_changesets on the answers of the last call
FilterAgain ==
    GetOutgoingChangesets(Ctx(last.pre.hg, last.pre.opts, last.pre.probes),
                          Strip(last.ans.branch), <<"default">>, last.ans)

\* The revisions whose parents the last call asked for, in the order asked
ParentsAsked ==
    LET asked == SelectSeq(last.cmds,
                           LAMBDA cmd : Len(cmd) = 6 /\ cmd[2] = <<"log">>
                                        /\ cmd[6] = <<"{parents}">>)
    IN  [i \in 1..Len(asked) |-> asked[i][4]]

\* The outgoing revisions of the current branch, the most recent first
OutgoingReversed ==
    [i \in 1..Len(Outgoing) |-> <<ToString(Outgoing[Len(Outgoing) + 1 - i])>>]

\* C13: Mercurial, filtering of the outgoing changesets. With blank blocks
\* and blocks of warnings skipped and an empty branch read as 'default', the
\* list is the revisions, in reported order, of the changesets on the current
\* branch whose revision is a number; top is the maximum of the list and is
\* what tip identifies; the parents are asked for from the end of that list;
\* exit status 1 of the query gives the empty list and not a failure of the
\* query.
C13_OutgoingFilter ==
    (HgParsedNone /\ hg.remote_path # <<>>) =>
        /\ last.ans.exit \in {0, 1} =>
               /\ ~Failed(FilterAgain)
               /\ FilterAgain.v = Outgoing
               /\ last.status # "ExecuteFailed"
        /\ last.ans.exit = 1 =>
               /\ FilterAgain.v = <<>>
               /\ last.status = "InvalidRevisionSpecError"
               /\ ParentsAsked = <<>>
        /\ (last.ans.exit = 0 /\ Outgoing = <<>>) =>
               /\ last.status = "InvalidRevisionSpecError"
               /\ ParentsAsked = <<>>
        /\ (last.ans.exit = 0 /\ Outgoing # <<>>) =>
               /\ ParentsAsked # <<>>
               /\ Len(ParentsAsked) <= Len(Outgoing)
               /\ ParentsAsked = SubSeq(OutgoingReversed, 1, Len(ParentsAsked))
               /\ WithExternal = {} => ParentsAsked = OutgoingReversed
               /\ Succeeded => last.res.tip = Resolved(IntWord(SeqMax(Outgoing)))

\* The report [(default,1), (other,2), (default,3)] was filtered to [1, 3]
C13_Witness ==
    /\ HgParsedNone
    /\ Succeeded
    /\ Len(last.ans.changesets) = 3
    /\ Outgoing = <<1, 3>>
    /\ ParentsAsked = <<IntWord(3), IntWord(1)>>
    /\ last.res.tip = Resolved(IntWord(3))

\* The Bazaar parse of the last call's revisions without options.parent_branch
ParseWithoutOverride ==
    BzrParseRevisionSpec(
        Ctx(last.pre.hg, [last.pre.opts EXCEPT !.parent_branch = None], last.pre.probes),
        last.revisions, last.ans)

\* The `bzr diff` commands of the last call, in the order issued
BzrDiffCmds ==
    SelectSeq(last.cmds, LAMBDA cmd : Len(cmd) >= 5 /\ cmd[1] = <<"bzr">>
                                      /\ cmd[2] = <<"diff">>)

\* bzr diff -q -r RANGE files
BzrDiffCmd(range) == Lit(<<"bzr", "diff", "-q", "-r">>) \o <<range>> \o last.files

BzrDiffed ==
    client = "Bazaar" /\ last.op \in {"diff", "diff_between"} /\ Succeeded

HgDiffCmds ==
    SelectSeq(last.cmds, LAMBDA cmd : Len(cmd) >= 2 /\ cmd[1] = <<"hg">>
                                      /\ cmd[2] = <<"diff">>)

\* The command ends with -r BASE -r TIP and the normalising extension
EndsWithRange(cmd, base, tip) ==
    /\ Len(cmd) >= 4 + Len(ExtConfig)
    /\ SubSeq(cmd, Len(cmd) - 3 - Len(ExtConfig), Len(cmd)) =
           <<<<"-r">>, base, <<"-r">>, tip>> \o ExtConfig

\* C15: Mercurial, plain mode. The diff command diff_between_revisions(range,
\* files, repo_info) issues names every file of the list the caller passed,
\* with two -r arguments for the base and the tip of the parsed range.
C15_FilesFilter ==
    (PlainMode /\ last.op = "diff_between" /\ Succeeded) =>
        /\ HgDiffCmds # <<>>
        /\ EndsWithRange(HgDiffCmds[1], last.res.base_commit_id,
                         ParseAgain(<<last.range>>).res.tip)
        /\ \A i \in 1..Len(last.files) : InSeq(last.files[i], HgDiffCmds[1])

\* The revisions the last diff parsed: none for diff(files), the range for
\* diff_between_revisions
DiffRevisions == IF last.op = "diff" THEN <<>> ELSE <<last.range>>

IsRoutine == last.op = "routine"

CachedUnchanged ==
    /\ hg.has_hg_root => (hg'.has_hg_root /\ hg'.hg_root = hg.hg_root)
    /\ hg.has_hidden => (hg'.has_hidden /\ hg'.hidden = hg.hidden)
    /\ hg.initted =>
           /\ hg'.initted
           /\ hg'.type = hg.type
           /\ hg'.remote_path = hg.remote_path
           /\ hg'.hgrc = hg.hgrc
           /\ hg'.svn_info = hg.svn_info

====
